---- MODULE Spec2Model ----
(***************************************************************************)
(* Model of the relay server: the handshake codec and the frame            *)
(* reassembler (src/src/protocol.rs), the per-connection pairing handler   *)
(* and the bidirectional proxy loop (src/src/main.rs).                     *)
(*                                                                         *)
(* Three next-state relations share the module:                            *)
(*   Spec        handle_connection for the accepted connections            *)
(*   RelaySpec   proxy_connections for one paired session, byte by byte    *)
(*   FramerSpec  MessageFramer::feed on chunked byte streams               *)
(* FairRelaySpec adds the progress the tokio runtime gives the proxy task,  *)
(* FairSpec the progress it gives the handler tasks.                       *)
(***************************************************************************)
EXTENDS Integers, Sequences, FiniteSets, TLC

VARIABLES
    \* ---- handle_connection (main.rs) ----
    nAccepted,   \* connections accepted so far by the accept loop
    pc,          \* position of each connection's handler task
    input,       \* the handshake bytes of each connection not yet read
    uuid,        \* request.uuid once the Request was read (0: none)
    registry,    \* pairings: uuid -> connection whose Sender is stored (0: no entry)
    lock,        \* holder of the pairings mutex (0: free)
    txState,     \* where the Sender of each connection's channel is
    chanBuf,     \* the ConnectionHalf buffered in each connection's channel (0: none)
    rxAlive,     \* whether the Receiver of each connection's channel is alive
    held,        \* the Sender a second arrival took out of the registry (0: none)
    responses,   \* the success flags of the Responses each handler tried to send
    written,     \* whether the last attempted Response was written completely
    relays,      \* the proxy_connections invocations so far, <<conn1, conn2>>
    outcome,     \* how each handler returned
    touched,     \* whether the handler ever took the registry lock
    claimedLive, \* whether a second arrival removed the entry while its creator
                 \* had not yet left the pairing wait
    \* ---- proxy_connections (main.rs) ----
    rpc,         \* position of the proxy loop
    rdir,        \* the select! branch whose body is running (source side)
    rchunk,      \* bytes read into the branch's buffer and not yet written
    inbox,       \* bytes each peer sent that the relay has not yet read
    outbox,      \* bytes written to each peer's transport that it has not drained
    psent,       \* every byte each peer sent after its handshake
    pwritten,    \* every byte the relay wrote to each peer
    peerState,   \* each peer's transport, seen from the peer
    relayOpen,   \* whether the relay still holds each side's stream
    eofSeen,     \* whether each peer has read end-of-stream
    rEvent,      \* whether a zero-byte read, read error or write error occurred
    \* ---- MessageFramer (protocol.rs) ----
    fStream,     \* the byte stream delivered to the framer
    fFed,        \* number of its bytes fed so far
    fBuffer,     \* MessageFramer.buffer
    fOut,        \* concatenation of the message vectors returned so far
    fLast        \* the last feed call: its buffer contents on entry and result

pairVars  == <<nAccepted, pc, input, uuid, registry, lock, txState, chanBuf,
               rxAlive, held, responses, written, relays, outcome, touched,
               claimedLive>>
relayVars == <<rpc, rdir, rchunk, inbox, outbox, psent, pwritten, peerState,
               relayOpen, eofSeen, rEvent>>
framerVars == <<fStream, fFed, fBuffer, fOut, fLast>>
vars == <<pairVars, relayVars, framerVars>>

(***************************************************************************)
(* Bounds of the model.                                                    *)
(***************************************************************************)
\* connections the accept loop takes
MaxConns == 3
\* distinct session identifiers in use
NumUuids == 2
\* segments a framer test stream is built from
MaxSegs == 3
\* bytes each peer sends during a relay session (more than a transport
\* buffers, so that writes block)
MaxSend == 3
\* stand-in for the 64 KiB transfer buffer: the most bytes one read returns
MaxChunk == 2
\* bytes a transport buffers in one direction before a write blocks
SockCap == 2

\* connections accepted in the runs that are checked for progress
FairConns == 2

Conns == 1..MaxConns
Uuids == 1..NumUuids

(***************************************************************************)
(* protocol.rs: the message codec.                                         *)
(***************************************************************************)
MAX_MESSAGE_SIZE == 10485760

\* the cap read_relay_request puts on the declared length
HandshakeCap == 1048576

\* u32::from_be_bytes on the first four bytes of b, as its two 16-bit halves
\* (the model checker's integers are 32-bit signed, a u32 is not)
Hi16(b) == b[1] * 256 + b[2]
Lo16(b) == b[3] * 256 + b[4]

\* len > limit for the u32 len that b starts with
LenExceeds(b, limit) ==
    \/ Hi16(b) > limit \div 65536
    \/ Hi16(b) = limit \div 65536 /\ Lo16(b) > limit % 65536

\* the u32 itself, read only once it is known to be within a limit
BE32(b) == Hi16(b) * 65536 + Lo16(b)

\* a plausible slip: the length is written little-endian
PutU32LE(n) == << n % 256, (n \div 256) % 256,
                  (n \div 65536) % 256, (n \div 16777216) % 256 >>

\* BufMut::put_u32
PutU32(n) == << (n \div 16777216) % 256, (n \div 65536) % 256,
                (n \div 256) % 256, n % 256 >>

\* enum Message; only the fields that pairing reads are kept
RelayRequest(u) == [type |-> "RelayRequest", uuid |-> u]
RelayResponse(s) == [type |-> "RelayResponse", success |-> s]
Messages == {RelayRequest(u) : u \in Uuids} \cup {RelayResponse(s) : s \in BOOLEAN}

\* The JSON payload is abstracted to two bytes, a variant tag and a value.
TagRequest == 1
TagResponse == 2

\* serde_json::to_vec
ToJson(m) ==
    IF m.type = "RelayRequest" THEN <<TagRequest, m.uuid>>
    ELSE <<TagResponse, IF m.success THEN 1 ELSE 0>>

\* serde_json::from_slice: fails on anything that is no serialized Message
FromJson(p) ==
    IF Len(p) = 2 /\ p[1] = TagRequest /\ p[2] \in Uuids
      THEN [ok |-> TRUE, msg |-> RelayRequest(p[2])]
    ELSE IF Len(p) = 2 /\ p[1] = TagResponse /\ p[2] \in {0, 1}
      THEN [ok |-> TRUE, msg |-> RelayResponse(p[2] = 1)]
    ELSE [ok |-> FALSE, msg |-> RelayResponse(FALSE)]

\* Message::to_bytes
ToBytes(m) == PutU32(Len(ToJson(m))) \o ToJson(m)

\* Message::from_bytes
FromBytes(data) ==
    IF Len(data) < 4 THEN [ok |-> FALSE, msg |-> RelayResponse(FALSE)]
    ELSE LET len == BE32(data) IN
         IF LenExceeds(data, MAX_MESSAGE_SIZE)
           THEN [ok |-> FALSE, msg |-> RelayResponse(FALSE)]
         ELSE IF Len(data) - 4 < len THEN [ok |-> FALSE, msg |-> RelayResponse(FALSE)]
         ELSE FromJson(SubSeq(data, 5, 4 + len))

(***************************************************************************)
(* protocol.rs: MessageFramer.                                             *)
(***************************************************************************)
\* a plausible slip: only the bad length prefix is dropped
ClearOnlyPrefix(buf) == SubSeq(buf, 5, Len(buf))

\* self.buffer.clear() on an oversized length prefix
ClearBuffer(buf) == <<>>

\* a plausible slip: a frame that fails to decode takes the buffer with it
DropBufferOnDecodeError(rest) == <<>>

\* lines 125-127: the decode error is logged; the buffer, already advanced
\* past the frame by split_to, is left as it is
AfterDecodeError(rest) == rest

RECURSIVE FeedLoop(_, _)
\* the loop of feed: buf is self.buffer, msgs the messages vector
FeedLoop(buf, msgs) ==
    IF Len(buf) < 4 THEN [buffer |-> buf, messages |-> msgs]
    ELSE LET len == BE32(buf) IN
         IF LenExceeds(buf, MAX_MESSAGE_SIZE)
           THEN [buffer |-> ClearBuffer(buf), messages |-> msgs]
         ELSE IF Len(buf) < 4 + len THEN [buffer |-> buf, messages |-> msgs]
         ELSE LET r == FromBytes(SubSeq(buf, 1, 4 + len))
                  rest == SubSeq(buf, 5 + len, Len(buf))
              IN IF r.ok THEN FeedLoop(rest, Append(msgs, r.msg))
                 ELSE FeedLoop(AfterDecodeError(rest), msgs)

\* MessageFramer::feed
Feed(buf, data) == FeedLoop(buf \o data, <<>>)

\* The byte streams the framer is driven with: up to MaxSegs segments, each a
\* valid frame, a frame with a malformed payload, an oversized length prefix,
\* a frame cut short, or stray bytes.
Segments ==
    { ToBytes(RelayRequest(1)),
      ToBytes(RelayResponse(TRUE)),
      <<0, 0, 0, 1, 9>>,
      <<0, 0, 0, 0>>,
      <<0, 160, 0, 1>>,
      <<255, 0, 0, 0>>,
      <<0, 0, 0, 2, 1>>,
      <<7>> }

RECURSIVE StreamsOf(_)
StreamsOf(n) ==
    IF n = 0 THEN {<<>>}
    ELSE LET shorter == StreamsOf(n - 1)
         IN shorter \cup {s \o g : s \in shorter, g \in Segments}

Streams == StreamsOf(MaxSegs)

NoFeed == [entry |-> <<>>, messages |-> <<>>, called |-> FALSE]

FramerInit ==
    /\ fStream \in Streams
    /\ fFed = 0
    /\ fBuffer = <<>>
    /\ fOut = <<>>
    /\ fLast = NoFeed

\* one call of feed with the next n bytes of the stream
FeedChunk(n) ==
    /\ fFed + n <= Len(fStream)
    /\ LET data == SubSeq(fStream, fFed + 1, fFed + n)
           r == Feed(fBuffer, data)
       IN /\ fBuffer' = r.buffer
          /\ fOut' = fOut \o r.messages
          /\ fLast' = [entry |-> fBuffer \o data, messages |-> r.messages,
                       called |-> TRUE]
    /\ fFed' = fFed + n
    /\ UNCHANGED <<pairVars, relayVars, fStream>>

(***************************************************************************)
(* main.rs: read_relay_request.                                            *)
(***************************************************************************)
\* What a client sends as its handshake: the bytes that arrive within the read
\* timeout, and whether the client then closes (eof) or just goes quiet.
HandshakeInputs ==
    {[bytes |-> ToBytes(RelayRequest(u)), eof |-> FALSE] : u \in Uuids} \cup
    { [bytes |-> ToBytes(RelayResponse(TRUE)), eof |-> FALSE],
      [bytes |-> <<0, 0, 0, 1, 9>>, eof |-> FALSE],
      [bytes |-> <<0, 16, 0, 1>>, eof |-> FALSE],
      [bytes |-> <<0, 0>>, eof |-> TRUE],
      [bytes |-> <<0, 0, 0, 2, 1>>, eof |-> FALSE] }

NoInput == [bytes |-> <<>>, eof |-> FALSE]

ReadOk(u) == [kind |-> "ok", uuid |-> u]
ReadErr == [kind |-> "err", uuid |-> 0]
ReadPending == [kind |-> "pending", uuid |-> 0]

\* a plausible slip: the variant of the decoded message is not looked at
ExtractAnyVariant(msg) ==
    IF msg.type = "RelayRequest" THEN ReadOk(msg.uuid) ELSE ReadOk(1)

\* the match on msg at the end of read_relay_request
ExtractRequest(msg) ==
    IF msg.type = "RelayRequest" THEN ReadOk(msg.uuid) ELSE ReadErr

\* read_exact of n bytes from position from: Ok when they are all there, an
\* error at end-of-stream, pending (until the read timeout) otherwise
ReadExact(inp, from, n) ==
    IF Len(inp.bytes) - from >= n THEN "ok"
    ELSE IF inp.eof THEN "err" ELSE "pending"

\* read_relay_request, and the timeout around it seeing "pending"
ReadRelayRequest(inp) ==
    IF ReadExact(inp, 0, 4) = "err" THEN ReadErr
    ELSE IF ReadExact(inp, 0, 4) = "pending" THEN ReadPending
    ELSE LET len == BE32(inp.bytes) IN
         IF LenExceeds(inp.bytes, HandshakeCap) THEN ReadErr
         ELSE IF ReadExact(inp, 4, len) = "err" THEN ReadErr
         ELSE IF ReadExact(inp, 4, len) = "pending" THEN ReadPending
         ELSE LET r == FromJson(SubSeq(inp.bytes, 5, 4 + len)) IN
              IF ~r.ok THEN ReadErr ELSE ExtractRequest(r.msg)

(***************************************************************************)
(* main.rs: handle_connection and the pairings map.                        *)
(***************************************************************************)
\* a plausible slip: the lookup ignores the key and takes any waiting entry
RegistryGetAny(reg, u) ==
    IF \E k \in Uuids : reg[k] # 0
      THEN reg[CHOOSE k \in Uuids : reg[k] # 0 /\ \A j \in Uuids : reg[j] # 0 => k <= j]
      ELSE 0

\* the entry pairings_guard.remove(&uuid) returns (0: None)
RegistryGet(reg, u) == reg[u]

\* the key whose entry RegistryGet returned
RegistryKeyOf(reg, u) ==
    IF reg[u] = RegistryGet(reg, u) THEN u
    ELSE CHOOSE k \in Uuids : reg[k] = RegistryGet(reg, u)

\* the map after HashMap::remove(&uuid)
RegistryRemove(reg, u) == [reg EXCEPT ![u] = 0]

\* a plausible slip: the map is read without the mutex
LockIgnored(l) == TRUE

\* pairings.lock().await completes only when the mutex is free
LockFree(l) == l = 0

\* a plausible slip: the guard is kept until the handler returns
KeepGuard(c) == lock

\* drop(pairings_guard)
Release(c) == IF lock = c THEN 0 ELSE lock

\* the Senders dropped when the entry of key u leaves the map unclaimed
DropEntry(tx, reg, u) ==
    IF reg[u] # 0 THEN [tx EXCEPT ![reg[u]] = "dropped"] ELSE tx

PairInit ==
    /\ nAccepted = 0
    /\ pc = [c \in Conns |-> "idle"]
    /\ input = [c \in Conns |-> NoInput]
    /\ uuid = [c \in Conns |-> 0]
    /\ registry = [u \in Uuids |-> 0]
    /\ lock = 0
    /\ txState = [c \in Conns |-> "none"]
    /\ chanBuf = [c \in Conns |-> 0]
    /\ rxAlive = [c \in Conns |-> FALSE]
    /\ held = [c \in Conns |-> 0]
    /\ responses = [c \in Conns |-> <<>>]
    /\ written = [c \in Conns |-> FALSE]
    /\ relays = <<>>
    /\ outcome = [c \in Conns |-> "none"]
    /\ touched = [c \in Conns |-> FALSE]
    /\ claimedLive = [c \in Conns |-> FALSE]

\* main: listener.accept() and the spawn of the handler task, for the first
\* n connections
AcceptUpTo(n) ==
    /\ nAccepted < n
    /\ nAccepted' = nAccepted + 1
    /\ \E inp \in HandshakeInputs : input' = [input EXCEPT ![nAccepted + 1] = inp]
    /\ pc' = [pc EXCEPT ![nAccepted + 1] = "read"]
    /\ UNCHANGED <<relayVars, framerVars, uuid, registry, lock, txState, chanBuf, rxAlive, held,
                   responses, written, relays, outcome, touched, claimedLive>>

Accept == AcceptUpTo(MaxConns)

\* lines 94-106: the handshake read under its 10 s timeout
ReadRequest(c) ==
    /\ pc[c] = "read"
    /\ LET r == ReadRelayRequest(input[c]) IN
         \/ /\ r.kind = "ok"
            /\ uuid' = [uuid EXCEPT ![c] = r.uuid]
            /\ pc' = [pc EXCEPT ![c] = "lock"]
         \/ /\ r.kind = "err"
            /\ pc' = [pc EXCEPT ![c] = "fail_read"]
            /\ UNCHANGED uuid
         \/ /\ r.kind = "pending"
            /\ pc' = [pc EXCEPT ![c] = "fail_timeout"]
            /\ UNCHANGED uuid
    /\ input' = [input EXCEPT ![c] = NoInput]
    /\ UNCHANGED <<relayVars, framerVars, nAccepted, registry, lock, txState, chanBuf, rxAlive,
                   held, responses, written, relays, outcome, touched, claimedLive>>

\* lines 98-99 and 103-104: the failure Response, then the handler returns
SendFailure(c) ==
    /\ pc[c] \in {"fail_read", "fail_timeout"}
    /\ responses' = [responses EXCEPT ![c] = Append(@, FALSE)]
    /\ \E okw \in BOOLEAN :
         /\ written' = [written EXCEPT ![c] = okw]
         /\ outcome' = [outcome EXCEPT ![c] =
                 IF ~okw THEN "io_error"
                 ELSE IF pc[c] = "fail_read" THEN "invalid_request"
                 ELSE "request_timeout"]
    /\ pc' = [pc EXCEPT ![c] = "done"]
    /\ UNCHANGED <<relayVars, framerVars, nAccepted, input, uuid, registry, lock, txState, chanBuf,
                   rxAlive, held, relays, touched, claimedLive>>

\* lines 115-121 (the mutex is taken, an entry is found and removed, and the
\* guard dropped) or lines 115-117 and 140 (the mutex is taken and no entry is
\* found; the guard is kept for the insert)
TryPair(c) ==
    /\ pc[c] = "lock"
    /\ LockFree(lock)
    /\ touched' = [touched EXCEPT ![c] = TRUE]
    /\ LET e == RegistryGet(registry, uuid[c]) IN
         \/ /\ e # 0
            /\ registry' = RegistryRemove(registry, RegistryKeyOf(registry, uuid[c]))
            /\ held' = [held EXCEPT ![c] = e]
            /\ txState' = [txState EXCEPT ![e] = "held"]
            /\ claimedLive' = [claimedLive EXCEPT ![c] = pc[e] \in {"respond1", "wait"}]
            /\ pc' = [pc EXCEPT ![c] = "respond2"]
            /\ UNCHANGED lock
         \/ /\ e = 0
            /\ lock' = c
            /\ pc' = [pc EXCEPT ![c] = "insert"]
            /\ UNCHANGED <<registry, held, txState, claimedLive>>
    /\ UNCHANGED <<relayVars, framerVars, nAccepted, input, uuid, chanBuf, rxAlive, responses, written,
                   relays, outcome>>

\* a plausible slip: the first arrival waits for its peer before it has
\* answered its own Request
WaitBeforeResponse == "wait"

\* line 150 follows the insert: the success Response comes before the wait
AfterInsert == "respond1"

\* lines 145-147: the channel is created, its Sender inserted, the guard dropped
RegisterWait(c) ==
    /\ pc[c] = "insert"
    /\ registry' = [registry EXCEPT ![uuid[c]] = c]
    /\ txState' = [DropEntry(txState, registry, uuid[c]) EXCEPT ![c] = "map"]
    /\ rxAlive' = [rxAlive EXCEPT ![c] = TRUE]
    /\ lock' = Release(c)
    /\ pc' = [pc EXCEPT ![c] = AfterInsert]
    /\ UNCHANGED <<relayVars, framerVars, nAccepted, input, uuid, chanBuf, held, responses, written,
                   relays, outcome, touched, claimedLive>>

\* line 150: the first arrival's success Response; on a write error the
\* handler returns and its Receiver is dropped
RespondFirst(c) ==
    /\ pc[c] = "respond1"
    /\ responses' = [responses EXCEPT ![c] = Append(@, TRUE)]
    /\ \/ /\ written' = [written EXCEPT ![c] = TRUE]
          /\ pc' = [pc EXCEPT ![c] = "wait"]
          /\ UNCHANGED <<rxAlive, outcome>>
       \/ /\ written' = [written EXCEPT ![c] = FALSE]
          /\ pc' = [pc EXCEPT ![c] = "done"]
          /\ rxAlive' = [rxAlive EXCEPT ![c] = FALSE]
          /\ outcome' = [outcome EXCEPT ![c] = "io_error"]
    /\ UNCHANGED <<relayVars, framerVars, nAccepted, input, uuid, registry, lock, txState, chanBuf,
                   held, relays, touched, claimedLive>>

\* line 124: the second arrival's success Response; on a write error the
\* handler returns and the Sender it holds is dropped
RespondSecond(c) ==
    /\ pc[c] = "respond2"
    /\ responses' = [responses EXCEPT ![c] = Append(@, TRUE)]
    /\ \/ /\ written' = [written EXCEPT ![c] = TRUE]
          /\ pc' = [pc EXCEPT ![c] = "send"]
          /\ UNCHANGED <<txState, outcome>>
       \/ /\ written' = [written EXCEPT ![c] = FALSE]
          /\ pc' = [pc EXCEPT ![c] = "done"]
          /\ txState' = [txState EXCEPT ![held[c]] = "dropped"]
          /\ outcome' = [outcome EXCEPT ![c] = "io_error"]
    /\ UNCHANGED <<relayVars, framerVars, nAccepted, input, uuid, registry, lock, chanBuf, rxAlive,
                   held, relays, touched, claimedLive>>

\* a plausible slip: the second arrival goes on to drive a relay of its own
DriveRelayAfterSend == "proxy"

\* lines 134-139 and 183: the stream was moved into the half that was sent;
\* the task has nothing left but to return
AfterSend == "done"

\* lines 127-139: tx.send(half).await, which succeeds while the Receiver is
\* alive and fails once it is dropped; the Sender is dropped on return
SendHalf(c) ==
    /\ pc[c] = "send"
    /\ \/ /\ rxAlive[held[c]]
          /\ chanBuf' = [chanBuf EXCEPT ![held[c]] = c]
          /\ outcome' = [outcome EXCEPT ![c] = "ok"]
       \/ /\ ~rxAlive[held[c]]
          /\ outcome' = [outcome EXCEPT ![c] = "channel_closed"]
          /\ UNCHANGED chanBuf
    /\ txState' = [txState EXCEPT ![held[c]] = "dropped"]
    /\ pc' = [pc EXCEPT ![c] = AfterSend]
    /\ UNCHANGED <<relayVars, framerVars, nAccepted, input, uuid, registry, lock, rxAlive, held,
                   responses, written, relays, touched, claimedLive>>

\* lines 153-154 and 167-180: rx.recv() yields the peer's half and the proxy
\* is started with both halves
RecvHalf(c) ==
    /\ pc[c] = "wait"
    /\ chanBuf[c] # 0
    /\ relays' = Append(relays, <<c, chanBuf[c]>>)
    /\ chanBuf' = [chanBuf EXCEPT ![c] = 0]
    /\ pc' = [pc EXCEPT ![c] = "proxy"]
    /\ UNCHANGED <<relayVars, framerVars, nAccepted, input, uuid, registry, lock, txState, rxAlive,
                   held, responses, written, outcome, touched, claimedLive>>

\* a plausible slip: the closure of the channel goes unnoticed
ClosureUnnoticed(c) == FALSE

\* rx.recv() resolves to None: the channel is empty and its Sender is dropped
ChannelClosed(c) == chanBuf[c] = 0 /\ txState[c] = "dropped"

\* lines 155-156: rx.recv() yields None
RecvClosed(c) ==
    /\ pc[c] = "wait"
    /\ ChannelClosed(c)
    /\ pc' = [pc EXCEPT ![c] = "cancel_closed"]
    /\ UNCHANGED <<relayVars, framerVars, nAccepted, input, uuid, registry, lock, txState, chanBuf,
                   rxAlive, held, responses, written, relays, outcome, touched,
                   claimedLive>>

\* lines 160-161: PAIRING_TIMEOUT elapses while rx.recv() is pending
PairingTimeout(c) ==
    /\ pc[c] = "wait"
    /\ chanBuf[c] = 0
    /\ ~ChannelClosed(c)
    /\ pc' = [pc EXCEPT ![c] = "cancel_timeout"]
    /\ UNCHANGED <<relayVars, framerVars, nAccepted, input, uuid, registry, lock, txState, chanBuf,
                   rxAlive, held, responses, written, relays, outcome, touched,
                   claimedLive>>

\* lines 157-158 and 162-163: pairings.lock().await.remove(&uuid), the guard
\* and the removed Sender dropped at the end of the statement, then bail!: the
\* handler returns and its Receiver is dropped
CancelWait(c) ==
    /\ pc[c] \in {"cancel_closed", "cancel_timeout"}
    /\ LockFree(lock)
    /\ touched' = [touched EXCEPT ![c] = TRUE]
    /\ registry' = RegistryRemove(registry, uuid[c])
    /\ txState' = IF registry' = registry THEN txState
                  ELSE DropEntry(txState, registry, uuid[c])
    /\ rxAlive' = [rxAlive EXCEPT ![c] = FALSE]
    /\ outcome' = [outcome EXCEPT ![c] = IF pc[c] = "cancel_closed"
                                          THEN "pairing_failed" ELSE "pairing_timeout"]
    /\ pc' = [pc EXCEPT ![c] = "done"]
    /\ UNCHANGED <<relayVars, framerVars, nAccepted, input, uuid, lock, chanBuf, held, responses,
                   written, relays, claimedLive>>

\* lines 180-183: proxy_connections returns (always Ok) and so does the handler
ProxyEnd(c) ==
    /\ pc[c] = "proxy"
    /\ outcome' = [outcome EXCEPT ![c] = "ok"]
    /\ rxAlive' = [rxAlive EXCEPT ![c] = FALSE]
    /\ pc' = [pc EXCEPT ![c] = "done"]
    /\ UNCHANGED <<relayVars, framerVars, nAccepted, input, uuid, registry, lock, txState, chanBuf,
                   held, responses, written, relays, touched, claimedLive>>

Handler(c) ==
    \/ ReadRequest(c) \/ SendFailure(c) \/ TryPair(c) \/ RegisterWait(c)
    \/ RespondFirst(c) \/ RespondSecond(c) \/ SendHalf(c) \/ RecvHalf(c)
    \/ RecvClosed(c) \/ PairingTimeout(c) \/ CancelWait(c) \/ ProxyEnd(c)

PairNext == Accept \/ \E c \in Conns : Handler(c)

(***************************************************************************)
(* main.rs: proxy_connections, for one session between sides 1 and 2.      *)
(***************************************************************************)
Sides == {1, 2}
Peer(i) == 3 - i

\* The k-th byte side i sends; the loop never looks into the data, so one
\* stream of pairwise distinct bytes per side stands for all of them.
ByteOf(i, k) == 10 * i + k

Min(a, b) == IF a < b THEN a ELSE b

RelayInit ==
    /\ rpc = "select"
    /\ rdir = 0
    /\ rchunk = <<>>
    /\ inbox = [i \in Sides |-> <<>>]
    /\ outbox = [i \in Sides |-> <<>>]
    /\ psent = [i \in Sides |-> <<>>]
    /\ pwritten = [i \in Sides |-> <<>>]
    /\ peerState = [i \in Sides |-> "open"]
    /\ relayOpen = [i \in Sides |-> TRUE]
    /\ eofSeen = [i \in Sides |-> FALSE]
    /\ rEvent = FALSE

\* the peer on side i writes one more byte to its transport
PeerSend(i) ==
    /\ peerState[i] = "open"
    /\ relayOpen[i]
    /\ Len(psent[i]) < MaxSend
    /\ Len(inbox[i]) < SockCap
    /\ inbox' = [inbox EXCEPT ![i] = Append(@, ByteOf(i, Len(psent[i]) + 1))]
    /\ psent' = [psent EXCEPT ![i] = Append(@, ByteOf(i, Len(psent[i]) + 1))]
    /\ UNCHANGED <<pairVars, framerVars, rpc, rdir, rchunk, outbox, pwritten, peerState, relayOpen,
                   eofSeen, rEvent>>

\* the peer on side i reads one byte the relay wrote to it
PeerDrain(i) ==
    /\ peerState[i] = "open"
    /\ outbox[i] # <<>>
    /\ outbox' = [outbox EXCEPT ![i] = Tail(@)]
    /\ UNCHANGED <<pairVars, framerVars, rpc, rdir, rchunk, inbox, psent, pwritten, peerState,
                   relayOpen, eofSeen, rEvent>>

\* the peer on side i closes its transport
PeerClose(i) ==
    /\ peerState[i] = "open"
    /\ peerState' = [peerState EXCEPT ![i] = "closed"]
    /\ UNCHANGED <<pairVars, framerVars, rpc, rdir, rchunk, inbox, outbox, psent, pwritten,
                   relayOpen, eofSeen, rEvent>>

\* the connection on side i is reset
PeerReset(i) ==
    /\ peerState[i] = "open"
    /\ peerState' = [peerState EXCEPT ![i] = "reset"]
    /\ UNCHANGED <<pairVars, framerVars, rpc, rdir, rchunk, inbox, outbox, psent, pwritten,
                   relayOpen, eofSeen, rEvent>>

\* the peer on side i reads end-of-stream: the relay has dropped the stream
\* and everything written before was drained
PeerSeeEof(i) ==
    /\ peerState[i] = "open"
    /\ ~relayOpen[i]
    /\ outbox[i] = <<>>
    /\ ~eofSeen[i]
    /\ eofSeen' = [eofSeen EXCEPT ![i] = TRUE]
    /\ UNCHANGED <<pairVars, framerVars, rpc, rdir, rchunk, inbox, outbox, psent, pwritten,
                   peerState, relayOpen, rEvent>>

\* a plausible slip: a zero-byte read is taken for "nothing to read yet"
ContinueOnZeroRead == "select"

\* lines 255-258 and 276-279: Ok(0) => break
AfterZeroRead == "break"

\* a plausible slip: the slice written is the whole buffer, not buf[..n]
WholeBuffer(buf, n) == buf

\* &buf1[..n] / &buf2[..n]: the first n bytes read
ReadSlice(buf, n) == SubSeq(buf, 1, n)

\* lines 253/259 and 274/280: the select! branch of side i completes with
\* Ok(n), n > 0, and its body starts
RelayRead(i, n) ==
    /\ rpc = "select"
    /\ peerState[i] # "reset"
    /\ n <= Len(inbox[i])
    /\ rchunk' = ReadSlice(inbox[i], n)
    /\ inbox' = [inbox EXCEPT ![i] = SubSeq(@, n + 1, Len(@))]
    /\ rdir' = i
    /\ rpc' = "write"
    /\ UNCHANGED <<pairVars, framerVars, outbox, psent, pwritten, peerState, relayOpen, eofSeen, rEvent>>

\* lines 255-258 and 276-279: the read of side i returns Ok(0)
RelayReadEof(i) ==
    /\ rpc = "select"
    /\ peerState[i] = "closed"
    /\ inbox[i] = <<>>
    /\ rpc' = AfterZeroRead
    /\ rEvent' = TRUE
    /\ UNCHANGED <<pairVars, framerVars, rdir, rchunk, inbox, outbox, psent, pwritten, peerState,
                   relayOpen, eofSeen>>

\* lines 266-269 and 287-290: the read of side i returns Err
RelayReadErr(i) ==
    /\ rpc = "select"
    /\ peerState[i] = "reset"
    /\ rpc' = "break"
    /\ rEvent' = TRUE
    /\ UNCHANGED <<pairVars, framerVars, rdir, rchunk, inbox, outbox, psent, pwritten, peerState,
                   relayOpen, eofSeen>>

\* lines 260-264 and 281-285: write_all of the branch's chunk makes progress:
\* as many bytes as the destination's transport has room for are written (all
\* of them when the destination is gone and the bytes are merely discarded);
\* the body ends when the chunk is written
RelayWrite ==
    /\ rpc = "write"
    /\ LET j == Peer(rdir)
           room == IF peerState[j] = "open" THEN SockCap - Len(outbox[j])
                   ELSE Len(rchunk)
           k == Min(room, Len(rchunk))
       IN /\ k > 0
          /\ pwritten' = [pwritten EXCEPT ![j] = @ \o SubSeq(rchunk, 1, k)]
          /\ outbox' = IF peerState[j] = "open"
                         THEN [outbox EXCEPT ![j] = @ \o SubSeq(rchunk, 1, k)]
                         ELSE outbox
          /\ rchunk' = SubSeq(rchunk, k + 1, Len(rchunk))
          /\ rpc' = IF k = Len(rchunk) THEN "select" ELSE "write"
          /\ rdir' = IF k = Len(rchunk) THEN 0 ELSE rdir
    /\ UNCHANGED <<pairVars, framerVars, inbox, psent, peerState, relayOpen, eofSeen, rEvent>>

\* lines 260-263 and 281-284: write_all returns Err
RelayWriteErr ==
    /\ rpc = "write"
    /\ peerState[Peer(rdir)] # "open"
    /\ rpc' = "break"
    /\ rEvent' = TRUE
    /\ UNCHANGED <<pairVars, framerVars, rdir, rchunk, inbox, outbox, psent, pwritten, peerState,
                   relayOpen, eofSeen>>

\* lines 296-303: after the loop the function returns and both streams are
\* dropped, which closes both transports
RelayReturn ==
    /\ rpc = "break"
    /\ rpc' = "returned"
    /\ relayOpen' = [i \in Sides |-> FALSE]
    /\ UNCHANGED <<pairVars, framerVars, rdir, rchunk, inbox, outbox, psent, pwritten, peerState,
                   eofSeen, rEvent>>

RelayStep ==
    \/ \E i \in Sides : \E n \in 1..MaxChunk : RelayRead(i, n)
    \/ \E i \in Sides : RelayReadEof(i)
    \/ \E i \in Sides : RelayReadErr(i)
    \/ RelayWrite
    \/ RelayWriteErr
    \/ RelayReturn

PeerStep ==
    \E i \in Sides :
        PeerSend(i) \/ PeerDrain(i) \/ PeerClose(i) \/ PeerReset(i) \/ PeerSeeEof(i)

RelayNext == RelayStep \/ PeerStep

(***************************************************************************)
(* The specifications.                                                     *)
(***************************************************************************)
FramerIdle ==
    /\ fStream = <<>>
    /\ fFed = 0
    /\ fBuffer = <<>>
    /\ fOut = <<>>
    /\ fLast = NoFeed

FramerNext == \E n \in 1..Len(fStream) : FeedChunk(n)

Init == PairInit /\ RelayInit /\ FramerIdle
Next == PairNext
Spec == Init /\ [][Next]_vars

\* Progress of the handlers: every spawned task keeps being scheduled, a
\* Response write ends (written or failed), and the timers fire.
FairNext == AcceptUpTo(FairConns) \/ \E c \in Conns : Handler(c)
FairSpec ==
    /\ Init
    /\ [][FairNext]_vars
    /\ \A c \in Conns : WF_vars(Handler(c))

RelayInitAll == PairInit /\ RelayInit /\ FramerIdle
RelaySpec == RelayInitAll /\ [][RelayNext]_vars

\* The proxy task keeps being scheduled, and a peer that has its transport
\* open keeps reading from it (it can observe nothing otherwise).
FairRelaySpec ==
    /\ RelaySpec
    /\ WF_vars(RelayStep)
    /\ \A i \in Sides : WF_vars(PeerDrain(i) \/ PeerSeeEof(i))

FramerInitAll == PairInit /\ RelayInit /\ FramerInit
FramerSpec == FramerInitAll /\ [][FramerNext]_vars

(***************************************************************************)
(* Properties of the frame reassembler (FramerSpec).                       *)
(***************************************************************************)
IsPrefix(s, t) == Len(s) <= Len(t) /\ s = SubSeq(t, 1, Len(s))

\* s is a concatenation of complete frames, each of a length within the maximum
RECURSIVE FramesOnly(_)
FramesOnly(s) ==
    \/ s = <<>>
    \/ /\ Len(s) >= 4
       /\ ~LenExceeds(s, MAX_MESSAGE_SIZE)
       /\ Len(s) >= 4 + BE32(s)
       /\ FramesOnly(SubSeq(s, 5 + BE32(s), Len(s)))

\* the messages that the frames of s (as in FramesOnly) decode to, in order
RECURSIVE DecodedFrames(_)
DecodedFrames(s) ==
    IF s = <<>> THEN <<>>
    ELSE LET r == FromBytes(SubSeq(s, 1, 4 + BE32(s)))
         IN (IF r.ok THEN <<r.msg>> ELSE <<>>)
              \o DecodedFrames(SubSeq(s, 5 + BE32(s), Len(s)))

\* position k of s is a frame boundary at which an oversized length prefix stands
OversizeAt(s, k) ==
    /\ k + 4 <= Len(s)
    /\ FramesOnly(SubSeq(s, 1, k))
    /\ LenExceeds(SubSeq(s, k + 1, k + 4), MAX_MESSAGE_SIZE)

\* C8: whatever way the stream was split into feed calls, once it is fed
\* completely the messages returned are those that feeding it in one piece
\* to a fresh reassembler returns.
C8_SplitInvariance ==
    fFed = Len(fStream) => fOut = Feed(<<>>, fStream).messages

\* C9: a feed call that meets an oversized length prefix at the head of its
\* buffer returns with the buffer empty and returns exactly the messages of
\* the frames that stood before that prefix.
C9_OversizeDiscardsBuffer ==
    fLast.called =>
        \A k \in 0..Len(fLast.entry) :
            OversizeAt(fLast.entry, k) =>
                /\ fBuffer = <<>>
                /\ fLast.messages = DecodedFrames(SubSeq(fLast.entry, 1, k))

\* C9 witness: one feed call decoded a message, then met an oversized prefix
\* with a complete valid frame buffered behind it.
C9_Witness ==
    /\ fLast.called
    /\ fLast.messages # <<>>
    /\ \E k \in 1..Len(fLast.entry) :
          /\ OversizeAt(fLast.entry, k)
          /\ SubSeq(fLast.entry, k + 5, Len(fLast.entry)) = ToBytes(RelayRequest(1))

\* position k of s is a frame boundary at which a complete frame stands whose
\* length is within the maximum and whose payload does not decode
BadFrameAt(s, k) ==
    /\ k + 4 <= Len(s)
    /\ FramesOnly(SubSeq(s, 1, k))
    /\ ~LenExceeds(SubSeq(s, k + 1, k + 4), MAX_MESSAGE_SIZE)
    /\ k + 4 + BE32(SubSeq(s, k + 1, k + 4)) <= Len(s)
    /\ ~FromBytes(SubSeq(s, k + 1, k + 4 + BE32(SubSeq(s, k + 1, k + 4)))).ok

\* C15: a feed call that meets a complete frame with an undecodable payload
\* returns what the frames before it decode to, followed by what feeding the
\* bytes behind its 4 + length bytes to an empty reassembler returns, and
\* keeps the buffer that would keep; and a stream of complete frames, fed
\* completely, has yielded the messages of its decodable frames, in order.
C15_MalformedFrameSkipped ==
    /\ fLast.called =>
          \A k \in 0..Len(fLast.entry) :
              BadFrameAt(fLast.entry, k) =>
                  LET e == fLast.entry
                      n == 4 + BE32(SubSeq(e, k + 1, k + 4))
                      r == Feed(<<>>, SubSeq(e, k + n + 1, Len(e)))
                  IN /\ fLast.messages = DecodedFrames(SubSeq(e, 1, k)) \o r.messages
                     /\ fBuffer = r.buffer
    /\ (fFed = Len(fStream) /\ FramesOnly(fStream)) =>
          fOut = DecodedFrames(fStream) /\ fBuffer = <<>>

\* C15 witness: one feed call returned two messages, the valid frames before
\* and after a frame with an undecodable payload.
C15_Witness ==
    /\ fLast.called
    /\ Len(fLast.messages) = 2
    /\ \E k \in 1..Len(fLast.entry) :
          /\ BadFrameAt(fLast.entry, k)
          /\ Len(DecodedFrames(SubSeq(fLast.entry, 1, k))) = 1

\* whether s is the concatenation of the encodings of messages m1..mk, and
\* these messages (no encoding is a prefix of another, so they are unique)
RECURSIVE EncodedMessages(_)
EncodedMessages(s) ==
    IF s = <<>> THEN [ok |-> TRUE, msgs |-> <<>>]
    ELSE LET heads == {m \in Messages : IsPrefix(ToBytes(m), s)} IN
         IF heads = {} THEN [ok |-> FALSE, msgs |-> <<>>]
         ELSE LET m == CHOOSE h \in heads : TRUE
                  r == EncodedMessages(SubSeq(s, Len(ToBytes(m)) + 1, Len(s)))
              IN [ok |-> r.ok, msgs |-> <<m>> \o r.msgs]

\* the buffer holds no complete frame: fewer than 4 bytes, or a length prefix
\* within the maximum followed by fewer payload bytes than it declares
HoldsNoFrame(buf) ==
    \/ Len(buf) < 4
    \/ ~LenExceeds(buf, MAX_MESSAGE_SIZE) /\ Len(buf) - 4 < BE32(buf)

\* C20: for a stream that is the concatenation of the encodings of messages
\* m1..mk, the feed calls so far have returned a prefix of m1..mk, and all of
\* them once the stream is fed completely; and after every feed call, on any
\* stream, the buffer holds no complete frame.
C20_RoundTrip ==
    /\ LET e == EncodedMessages(fStream) IN
          e.ok =>
              /\ IsPrefix(fOut, e.msgs)
              /\ fFed = Len(fStream) => fOut = e.msgs /\ fBuffer = <<>>
    /\ fLast.called => HoldsNoFrame(fBuffer)

\* C20 witness: of a stream of two different messages, one feed call got the
\* first frame together with the length prefix and part of the payload of the
\* second: it returned the first message and retains the partial frame.
C20_Witness ==
    LET e == EncodedMessages(fStream)
        ms == e.msgs
    IN  /\ e.ok
        /\ Len(ms) = 2 /\ ms[1] # ms[2]
        /\ fLast.called
        /\ fLast.messages = <<ms[1]>>
        /\ fOut = <<ms[1]>>
        /\ Len(fBuffer) = 5
        /\ fLast.entry = SubSeq(fStream, 1, 11)

(***************************************************************************)
(* Properties of the pairing handler (Spec).                               *)
(***************************************************************************)
\* c created a channel and inserted its Sender: it took the first-arrival path
IsFirst(c) == txState[c] # "none"

\* c removed an entry from the registry: it took the second-arrival path
IsSecond(c) == held[c] # 0

\* number of proxy_connections invocations with conn1 = a and conn2 = b
RelayCount(a, b) == Cardinality({i \in 1..Len(relays) : relays[i] = <<a, b>>})

InRelay(c) == \E i \in 1..Len(relays) : relays[i][1] = c \/ relays[i][2] = c

\* C1: once a and b have both returned, b having removed a's entry while a was
\* still inside its pairing window and no Response write having failed, the
\* proxy was started exactly once with a and b and no entry of a is left.
C1_PairedExactlyOnce ==
    \A a, b \in Conns :
        ( /\ held[b] = a
          /\ claimedLive[b]
          /\ pc[a] = "done" /\ pc[b] = "done"
          /\ outcome[a] # "io_error" /\ outcome[b] # "io_error" )
        => /\ RelayCount(a, b) = 1
           /\ registry[uuid[a]] # a

\* C2: every proxy invocation joins two connections whose Requests carried the
\* same session identifier.
C2_SameIdentifier ==
    \A i \in 1..Len(relays) :
        /\ uuid[relays[i][1]] # 0
        /\ uuid[relays[i][1]] = uuid[relays[i][2]]

\* C2 witness: a proxy runs for one identifier while a connection that
\* presented another identifier is waiting for its peer.
C2_Witness ==
    \E i \in 1..Len(relays) : \E c \in Conns :
        /\ pc[relays[i][1]] = "proxy"
        /\ pc[c] = "wait"
        /\ registry[uuid[c]] = c
        /\ uuid[c] # uuid[relays[i][1]]

\* C3: a first arrival that wrote its success Response, entered the pairing
\* wait and has returned without any peer having claimed its entry returned
\* with the pairing timeout, started no proxy, and its entry is no longer in
\* the registry.
C3_UnclaimedTimesOut ==
    \A c \in Conns :
        ( /\ IsFirst(c)
          /\ pc[c] = "done"
          /\ outcome[c] # "io_error"
          /\ \A d \in Conns : held[d] # c )
        => /\ outcome[c] = "pairing_timeout"
           /\ ~InRelay(c)
           /\ registry[uuid[c]] # c

\* C4: the existence check and the insert are one atomic step under the lock:
\* a handler between its check and its insert holds the mutex and still has no
\* entry for its identifier in the map; and when exactly two connections have
\* presented an identifier, they are never both unfinished first arrivals.
C4_OneFirstArrival ==
    /\ \A c \in Conns :
          pc[c] = "insert" => lock = c /\ registry[uuid[c]] = 0
    /\ \A a, b \in Conns :
          ( /\ a # b
            /\ uuid[a] # 0 /\ uuid[a] = uuid[b]
            /\ \A c \in Conns : uuid[c] = uuid[a] => c \in {a, b}
            /\ pc[a] # "done" /\ pc[b] # "done" )
          => ~(IsFirst(a) /\ IsFirst(b))

\* C4 witness: the race itself. One handler is between check and insert while
\* another with the same identifier waits for the mutex.
C4_Witness ==
    \E a, b \in Conns :
        /\ a # b /\ uuid[a] = uuid[b]
        /\ pc[a] = "insert"
        /\ pc[b] = "lock"

\* C5: every registry entry belongs to a connection whose handler has not
\* returned.
C5_EntryHasLiveCreator ==
    \A u \in Uuids : registry[u] # 0 => pc[registry[u]] # "done"

\* the handshake of a connection cannot be read: no complete frame arrives,
\* the declared length is above the handshake cap, the payload does not
\* parse, or the message is not a Request
BadHandshake(inp) ==
    \/ Len(inp.bytes) < 4
    \/ LenExceeds(inp.bytes, HandshakeCap)
    \/ Len(inp.bytes) < 4 + BE32(inp.bytes)
    \/ ~FromJson(SubSeq(inp.bytes, 5, 4 + BE32(inp.bytes))).ok
    \/ FromJson(SubSeq(inp.bytes, 5, 4 + BE32(inp.bytes))).msg.type # "RelayRequest"

FailedHandshake(c) ==
    \/ pc[c] \in {"fail_read", "fail_timeout"}
    \/ pc[c] = "done" /\ ~touched[c]

\* C10: a handler whose handshake cannot be read goes to the failure path;
\* on that path it tries to send exactly one Response, with success = false,
\* and returns, having never taken the registry lock nor started a proxy.
C10_HandshakeFailure ==
    /\ [][\A c \in Conns :
            (pc[c] = "read" /\ pc'[c] # "read" /\ BadHandshake(input[c]))
            => pc'[c] \in {"fail_read", "fail_timeout"}]_vars
    /\ [][\A c \in Conns :
            (pc[c] \in {"fail_read", "fail_timeout"} /\ pc'[c] # pc[c])
            => pc'[c] = "done" /\ responses'[c] = <<FALSE>>]_vars
    /\ [](\A c \in Conns :
            FailedHandshake(c)
            => /\ ~touched[c]
               /\ uuid[c] = 0
               /\ ~IsFirst(c) /\ ~IsSecond(c)
               /\ ~InRelay(c)
               /\ responses[c] \in {<<>>, <<FALSE>>}
               /\ \A u \in Uuids : registry[u] # c)

\* C10 witness: a handler has returned after a request timeout, its failure
\* Response sent, while another connection's entry sits in the registry.
C10_Witness ==
    \E c \in Conns :
        /\ pc[c] = "done"
        /\ outcome[c] = "request_timeout"
        /\ responses[c] = <<FALSE>>
        /\ written[c]
        /\ \E u \in Uuids : registry[u] # 0

\* C11: a handler tries to send at most one Response, and none before its
\* handshake read has ended; a success Response is sent only to a connection
\* whose Request was read; and a connection is handed to the proxy only after
\* its own success Response was written completely, so a first arrival that
\* is still at its Response is in no proxy, whatever its channel holds.
C11_ResponseBeforeRelay ==
    \A c \in Conns :
        /\ Len(responses[c]) <= 1
        /\ responses[c] # <<>> => pc[c] \notin {"idle", "read"}
        /\ responses[c] = <<TRUE>> => uuid[c] # 0
        /\ InRelay(c) => responses[c] = <<TRUE>> /\ written[c]
        /\ pc[c] \in {"insert", "respond1", "respond2", "send"} => ~InRelay(c)

\* C11 witness: the peer has claimed the entry, written its Response and
\* handed over its handle while the first arrival has not yet written its own
\* Response.
C11_Witness ==
    \E a, b \in Conns :
        /\ pc[a] = "respond1"
        /\ responses[a] = <<>>
        /\ chanBuf[a] = b
        /\ outcome[b] = "ok"

\* C12: no handler removes an entry another connection created: a first
\* arrival that has not yet left its pairing wait and whose entry no second
\* arrival has claimed still has its entry in the registry, whatever errors
\* the other handlers ran into.
C12_OnlyOwnEntryRemoved ==
    \A c \in Conns :
        ( /\ IsFirst(c)
          /\ pc[c] \in {"respond1", "wait"}
          /\ \A d \in Conns : held[d] # c )
        => registry[uuid[c]] = c

\* c waits on a channel that was closed without a value
WaitsOnClosed(c) == pc[c] = "wait" /\ chanBuf[c] = 0 /\ txState[c] = "dropped"

\* C13: when a second arrival that claimed an entry returns on the failure of
\* its Response write, the claimed channel is closed without a value; a first
\* arrival waiting on a channel closed without a value leaves the wait only
\* through the closure, never through the timeout, and it does leave it: it
\* returns with the pairing-failed error and has started no proxy.
C13_ClosedChannelFails ==
    /\ [][\A a, b \in Conns :
            (held[b] = a /\ pc[b] = "respond2" /\ pc'[b] = "done")
            => txState'[a] = "dropped" /\ chanBuf'[a] = 0]_vars
    /\ [][\A a \in Conns :
            WaitsOnClosed(a) => pc'[a] \in {"wait", "cancel_closed"}]_vars
    /\ \A a \in Conns :
          WaitsOnClosed(a) ~>
              (pc[a] = "done" /\ outcome[a] = "pairing_failed" /\ ~InRelay(a))

\* C13 witness: the second arrival's Response write failed after it had
\* claimed the entry, and the first arrival, which had written its own
\* Response, has returned with the pairing-failed error.
C13_Witness ==
    \E a, b \in Conns :
        /\ held[b] = a
        /\ responses[b] = <<TRUE>> /\ ~written[b]
        /\ outcome[b] = "io_error"
        /\ written[a]
        /\ pc[a] = "done" /\ outcome[a] = "pairing_failed"

\* the tasks that hold the stream of connection c: its own handler as long
\* as it runs, and the first arrival that received c's half and runs the proxy
StreamHolders(c) ==
    {t \in Conns :
        \/ t = c /\ pc[c] \notin {"idle", "done"}
        \/ \E i \in 1..Len(relays) : relays[i] = <<t, c>> /\ pc[t] = "proxy"}

\* C14: every proxy is invoked by a first arrival's task on its own stream and
\* on the half of a second arrival whose task has returned; a half that sits
\* in a channel belongs to a task that has returned; every connection is in at
\* most one proxy invocation; and no stream is held by two tasks.
C14_ExclusiveOwnership ==
    /\ \A i \in 1..Len(relays) :
          /\ IsFirst(relays[i][1]) /\ ~IsSecond(relays[i][1])
          /\ IsSecond(relays[i][2]) /\ ~IsFirst(relays[i][2])
          /\ pc[relays[i][2]] = "done"
          /\ held[relays[i][2]] = relays[i][1]
    /\ \A c \in Conns :
          /\ chanBuf[c] # 0 => pc[chanBuf[c]] = "done"
          /\ Cardinality({i \in 1..Len(relays) :
                             relays[i][1] = c \/ relays[i][2] = c}) <= 1
          /\ Cardinality(StreamHolders(c)) <= 1

\* C14 witness: a first arrival runs the proxy with the half of a second
\* arrival whose task has returned, while a third connection is served by its
\* own handler.
C14_Witness ==
    \E a, b, c \in Conns :
        /\ relays = << <<a, b>> >>
        /\ pc[a] = "proxy" /\ pc[b] = "done"
        /\ StreamHolders(b) = {a}
        /\ c \notin {a, b} /\ pc[c] = "wait"

\* the positions at which a handler is suspended in an await on a socket, a
\* channel or a timer
AtSuspension(c) ==
    pc[c] \in {"read", "fail_read", "fail_timeout", "respond1", "respond2",
               "send", "wait", "proxy"}

\* C18: the mutex is held only by a handler between its lookup and its
\* insert, which can always take its next step, the insert that releases the
\* mutex; no handler suspended on a socket, a channel or a timer holds it,
\* and none that has returned.
C18_LockNotHeldAcrossAwait ==
    /\ lock # 0 => lock \in Conns /\ pc[lock] = "insert" /\ ENABLED RegisterWait(lock)
    /\ \A c \in Conns : (AtSuspension(c) \/ pc[c] = "done") => lock # c

\* C18 witness: one handler holds the mutex between lookup and insert while
\* another is stalled in its pairing wait and a third waits for the mutex.
C18_Witness ==
    \E a, b, c \in Conns :
        /\ lock = a /\ pc[a] = "insert"
        /\ pc[b] = "wait"
        /\ pc[c] = "lock"

\* C19: once a second arrival whose send succeeded (its handler returned Ok)
\* and the first arrival whose channel it sent on have both returned, the
\* first arrival having written its own Response, the proxy was started with
\* that handle.
C19_NoHandleLost ==
    \A a, b \in Conns :
        ( /\ held[b] = a
          /\ pc[b] = "done" /\ outcome[b] = "ok"
          /\ pc[a] = "done" /\ outcome[a] # "io_error" )
        => \E i \in 1..Len(relays) : relays[i] = <<a, b>>

\* C16: a handler that has returned on a failure before pairing (the
\* handshake could not be read, the pairing timed out, or the pairing channel
\* was closed) has tried to send its connection a Response with success =
\* false.
C16_FailureResponseSent ==
    \A c \in Conns :
        ( /\ pc[c] = "done"
          /\ outcome[c] \in {"invalid_request", "request_timeout",
                              "pairing_failed", "pairing_timeout"} )
        => \E i \in 1..Len(responses[c]) : responses[c][i] = FALSE

(***************************************************************************)
(* Properties of the proxy loop (RelaySpec, FairRelaySpec).                *)
(***************************************************************************)
\* the write toward side j is blocked: the chunk is not written out and the
\* transport of j, which is open, has no room
WriteBlockedTo(j) ==
    /\ rpc = "write"
    /\ Peer(rdir) = j
    /\ peerState[j] = "open"
    /\ Len(outbox[j]) = SockCap

\* C17: while the write toward one side is blocked, bytes that side has sent
\* can still be read by the relay for the opposite direction.
C17_DirectionsConcurrent ==
    \A j \in Sides :
        (WriteBlockedTo(j) /\ inbox[j] # <<>> /\ peerState[j] = "open")
        => ENABLED (\E n \in 1..MaxChunk : RelayRead(j, n))

\* C6: in each direction, what the relay has written to one peer is a prefix
\* of what the other peer has sent.
C6_RelayPrefix ==
    \A i \in Sides : IsPrefix(pwritten[Peer(i)], psent[i])

\* C6 witness: everything side 1 sent, in two bytes or more, has been written
\* to side 2 while bytes of side 2 have been written to side 1.
C6_Witness ==
    /\ Len(psent[1]) >= 2
    /\ pwritten[2] = psent[1]
    /\ pwritten[1] # <<>>

\* C7: after the first zero-byte read, read error or write error the loop is
\* left and nothing more is written in either direction; both streams are
\* then dropped; and once a peer has closed its transport, the other peer
\* reads end-of-stream (unless it has itself closed or been reset).
C7_FirstEventEndsSession ==
    /\ [][rEvent => pwritten' = pwritten /\ rpc' \in {"break", "returned"}]_vars
    /\ [](rpc = "returned" => \A i \in Sides : ~relayOpen[i])
    /\ rEvent ~> (\A i \in Sides : ~relayOpen[i])
    /\ \A i \in Sides :
          (peerState[i] = "closed") ~> (eofSeen[Peer(i)] \/ peerState[Peer(i)] # "open")

\* C7 witness: side 1 closed after some of its bytes were forwarded, the loop
\* ended on the zero-byte read, and side 2 has read end-of-stream with bytes
\* of its own left unforwarded.
C7_Witness ==
    /\ peerState[1] = "closed"
    /\ peerState[2] = "open"
    /\ pwritten[2] # <<>>
    /\ rpc = "returned"
    /\ eofSeen[2]
    /\ inbox[2] # <<>>

====
